---- MODULE Spec2Model ----
(***************************************************************************)
(* SequencerBackgroundActivator (logdevice/common): the worker-local state  *)
(* machine that re-checks sequencers after a configuration change and,     *)
(* under an in-flight budget, either reactivates a sequencer or rewrites   *)
(* the nodeset params in the epoch store.                                   *)
(***************************************************************************)
EXTENDS Integers, Sequences, FiniteSets, TLC

(***************************************************************************)
(* Bounds of the model.                                                     *)
(***************************************************************************)
NumLogs == 2            \* data logs 1..NumLogs
MaxLimit == 2           \* largest max_sequencer_background_activations_in_flight
EpochBits == 3          \* width of epoch_t in the model (32 in the program)
MaxEvents == 2          \* inputs from outside in one behaviour: schedule()
                        \* calls, notifications by other callers,
                        \* configuration changes, actions that fail to
                        \* start or end with an error
MaxPasses == 3          \* cap of the per-log count of drain passes waited

(***************************************************************************)
(* Log ids.  A metadata log id is a data log id with the top bit set.      *)
(***************************************************************************)
MetaDataLogBit == 8

Logs == 1 .. NumLogs

MetaLogs == {MetaDataLogBit + 1}

AllIds == Logs \cup MetaLogs

isMetaDataLog(id) == id >= MetaDataLogBit

\* ld_check(c): the check passes iff c holds; a failed check aborts the worker.
ld_check(c) == c

(***************************************************************************)
(* Epochs.                                                                  *)
(***************************************************************************)
EpochMod == 2 ^ EpochBits

EPOCH_MAX == EpochMod - 1

EPOCH_INVALID == 0

\* epoch_t(e.val() + 1), on an unsigned integer of EpochBits bits
EpochPlus1(e) == (e + 1) % EpochMod

\* EpochMinus1 without the decrement
EpochSame(e) == e

\* epoch_t(e.val() - 1)
EpochMinus1(e) == (e + EpochMod - 1) % EpochMod

InitEpochs == {1, EPOCH_MAX - 3}

(***************************************************************************)
(* Values of the external collaborators' data.                              *)
(***************************************************************************)
NoMD == [none |-> TRUE]

NoOptions == -1

NoAct == [kind |-> "none"]

\* errors activateSequencer may set when it returns non-zero
ActivateErrors == {"NOTFOUND", "NOBUFS", "INPROGRESS", "FAILED", "TOOMANY", "SYSLIMIT"}

\* errors createOrUpdateMetaData may set when it returns non-zero
EpochStoreErrors == {"INTERNAL", "NOTCONN", "ACCESS", "SYSLIMIT", "NOTFOUND", "FAILED"}

\* statuses the epoch store hands to the completion callback
CallbackStatuses == {"OK", "UPTODATE", "ABORTED", "FAILED", "SHUTDOWN", "NOTCONN"}

\* statuses a sequencer activation ends with
ActivationStatuses == {"OK", "FAILED", "ABORTED"}

ReconcilerModes == {"OK", "UNSTABLE", "FAILSECOND"}

Max(a, b) == IF a >= b THEN a ELSE b

Min(a, b) == IF a <= b THEN a ELSE b

(***************************************************************************)
(* updateMetaDataIfNeeded (EpochMetaDataUpdater): the metadata reconciler.  *)
(* md is the tentative metadata, lc the log's configuration, mode the      *)
(* behaviour of the nodeset selector: "OK" (deterministic and convergent),  *)
(* "UNSTABLE" (wants another nodeset every time) or "FAILSECOND" (fails on  *)
(* metadata that needs no update).  Result: res, the only-params flag and  *)
(* the metadata it leaves behind.                                           *)
(***************************************************************************)
updateMetaDataIfNeeded(md, lc, mode) ==
  LET same == md.nodeset = lc.nodeset /\ md.params = lc.params IN
  CASE mode = "UNSTABLE" ->
         [res |-> "UPDATED", only_params |-> FALSE,
          md |-> [md EXCEPT !.nodeset = 1 - md.nodeset, !.params = lc.params]]
    [] mode = "FAILSECOND" /\ same ->
         [res |-> "FAILED", only_params |-> FALSE, md |-> md]
    [] same ->
         [res |-> "UNCHANGED", only_params |-> FALSE, md |-> md]
    [] OTHER ->
         [res |-> "UPDATED",
          only_params |-> md.nodeset = lc.nodeset,
          md |-> [md EXCEPT !.nodeset = lc.nodeset, !.params = lc.params]]

(***************************************************************************)
(* Sequencer (read by the engine), per log:                                 *)
(*   exists  - AllSequencers::findSequencer() finds it                      *)
(*   state   - Sequencer::State                                             *)
(*   md      - getCurrentMetaData(): NoMD or                                *)
(*             [epoch, nodeset, params, written, valid]                     *)
(*   options - getEpochSequencerOptions(): NoOptions or a value             *)
(*   token   - background_activation_token_.valid()                         *)
(*   preempted - the epoch notePreemption() was last told, if any           *)
(* Configuration cfg:                                                       *)
(*   logs[l] - [present, options, nodeset, params] of the log group         *)
(*   provision - serverConfig()->sequencersProvisionEpochStore()            *)
(*   is_sequencer_node - isSequencingEnabled(my node)                       *)
(*   mode    - how the nodeset selector behaves                             *)
(***************************************************************************)

\* EpochSequencerImmutableOptions(logcfg->attrs(), Worker::settings())
NewOptions(lc) == lc.options

\* Sequencer::noteConfigurationChanged(): a node stripped of sequencing
\* deactivates its sequencer.
noteConfigurationChanged(s, is_sequencer_node) ==
  IF is_sequencer_node THEN s ELSE [s EXCEPT !.state = "UNAVAILABLE"]

\* EarlyError with the epoch guard at EPOCH_MAX instead of EPOCH_MAX - 2
EarlyErrorLateGuard(logid, s, cfg) ==
  CASE s.state # "ACTIVE" \/ s.md = NoMD ->
         IF s.state = "ACTIVATING" THEN "INPROGRESS" ELSE "NOSEQUENCER"
    [] ~s.md.valid -> "INTERNAL"
    [] ~cfg.logs[logid].present -> "NOTFOUND"
    [] s.md.epoch >= EPOCH_MAX -> "TOOBIG"
    [] s.options = NoOptions -> "NOSEQUENCER"
    [] OTHER -> ""

\* The checks reprovisionOrReactivateIfNeeded makes before it computes
\* anything: the err it returns -1 with, or "" when it goes on.
EarlyError(logid, s, cfg) ==
  CASE s.state # "ACTIVE" \/ s.md = NoMD ->
         IF s.state = "ACTIVATING" THEN "INPROGRESS" ELSE "NOSEQUENCER"
    [] ~s.md.valid -> "INTERNAL"
    [] ~cfg.logs[logid].present -> "NOTFOUND"
    [] s.md.epoch >= EPOCH_MAX - 2 -> "TOOBIG"
    [] s.options = NoOptions -> "NOSEQUENCER"
    [] OTHER -> ""

\* OptionsChanged with the comparison inverted
OptionsChangedInverted(logid, s, cfg) == NewOptions(cfg.logs[logid]) = s.options

\* new_options != current_options.value()
OptionsChanged(logid, s, cfg) == NewOptions(cfg.logs[logid]) # s.options

\* BothCatchesHold with the first ld_catch only
BothCatchesHoldFirstOnly(another_res) == another_res # "FAILED"

\* The second updateMetaDataIfNeeded() call on a copy of new_metadata:
\* TRUE iff both ld_catch conditions hold.
BothCatchesHold(another_res) ==
  another_res # "FAILED" /\ another_res = "UNCHANGED"

StabilityCheck(new_metadata, lc, mode) ==
  BothCatchesHold(updateMetaDataIfNeeded(new_metadata, lc, mode).res)

\* what the do { ... } while (false) block leaves: the err it returns -1
\* with ("" if it does not), the two flags and new_metadata
ReconcileFlags(err, react, upd, md) ==
  [err |-> err, need_reactivation |-> react,
   need_epoch_metadata_update |-> upd, new_metadata |-> md]

\* the first updateMetaDataIfNeeded() call, on the tentative metadata: the
\* current metadata with the epoch advanced by one
FirstUpdate(s, lc, mode) ==
  updateMetaDataIfNeeded([s.md EXCEPT !.epoch = EpochPlus1(s.md.epoch)],
                         lc, mode)

\* ReconcileOf that skips the reconciler, instead of returning INPROGRESS,
\* when the metadata is not yet in the metadata log
ReconcileOfSkipsUnwritten(provision, written, opt, r, stable) ==
  CASE ~provision \/ ~written -> ReconcileFlags("", opt, FALSE, NoMD)
    [] r.res = "FAILED" -> ReconcileFlags("", opt, FALSE, NoMD)
    [] r.res = "UNCHANGED" -> ReconcileFlags("", opt, FALSE, NoMD)
    [] OTHER ->
         IF stable
         THEN ReconcileFlags("", opt \/ ~r.only_params, TRUE, r.md)
         ELSE ReconcileFlags("", FALSE, FALSE, r.md)

\* ReconcileOf that drops need_reactivation when the reconciler fails
ReconcileOfFailedTerminal(provision, written, opt, r, stable) ==
  CASE ~provision -> ReconcileFlags("", opt, FALSE, NoMD)
    [] ~written -> ReconcileFlags("INPROGRESS", opt, FALSE, NoMD)
    [] r.res = "FAILED" -> ReconcileFlags("", FALSE, FALSE, NoMD)
    [] r.res = "UNCHANGED" -> ReconcileFlags("", opt, FALSE, NoMD)
    [] OTHER ->
         IF stable
         THEN ReconcileFlags("", opt \/ ~r.only_params, TRUE, r.md)
         ELSE ReconcileFlags("", FALSE, FALSE, r.md)

\* The do { ... } while (false) block, given opt (the options changed), r
\* (the result of the first reconciler call) and stable (of the second)
ReconcileOf(provision, written, opt, r, stable) ==
  CASE ~provision -> ReconcileFlags("", opt, FALSE, NoMD)
    [] ~written -> ReconcileFlags("INPROGRESS", opt, FALSE, NoMD)
    [] r.res = "FAILED" -> ReconcileFlags("", opt, FALSE, NoMD)
    [] r.res = "UNCHANGED" -> ReconcileFlags("", opt, FALSE, NoMD)
    [] OTHER ->
         IF stable
         THEN ReconcileFlags("", opt \/ ~r.only_params, TRUE, r.md)
         ELSE ReconcileFlags("", FALSE, FALSE, r.md)

Reconcile(logid, s, cfg) ==
  ReconcileOf(cfg.provision, s.md.written, OptionsChanged(logid, s, cfg),
              FirstUpdate(s, cfg.logs[logid], cfg.mode),
              StabilityCheck(FirstUpdate(s, cfg.logs[logid], cfg.mode).md,
                             cfg.logs[logid], cfg.mode))

\* the external call a decision with early error early and flags f ends
\* with: "activate", "write" or "none" (no call)
ActionKindOf(early, f) ==
  CASE early # "" -> "none"
    [] f.err # "" -> "none"
    [] f.need_reactivation -> "activate"
    [] f.need_epoch_metadata_update -> "write"
    [] OTHER -> "none"

ActionKind(logid, s, cfg) ==
  ActionKindOf(EarlyError(logid, s, cfg), Reconcile(logid, s, cfg))

\* The external call processOneLog ends with, its early returns included.
DecisionKind(log_id, s, cfg) ==
  IF ~s.exists \/ s.token \/ ~cfg.is_sequencer_node THEN "none"
  ELSE ActionKind(log_id, s, cfg)

\* ActionEpoch without the increment
ActionEpochSame(current_epoch) == current_epoch

\* acceptable_activation_epoch / the epoch the params write is conditioned on
ActionEpoch(current_epoch) == EpochPlus1(current_epoch)

(***************************************************************************)
(* reprovisionOrReactivateIfNeeded(logid, seq).  issue is what the external *)
(* call returns: "OK" (0) or the err it fails with.  Result: rv, err, the  *)
(* action started (NoAct if none), the sequencer afterwards and the two    *)
(* action counters' increments.                                             *)
(***************************************************************************)
ReprovisionResult(rv, err, act, s, nr, nw) ==
  [rv |-> rv, err |-> err, act |-> act, s |-> s,
   reactivations |-> nr, updates |-> nw]

\* the action a successful external call starts
ActionStarted(kind, current_epoch, md) ==
  [kind |-> kind, epoch |-> ActionEpoch(current_epoch),
   current_epoch |-> current_epoch, md |-> md]

\* ReprovisionOf with the params write tried before the reactivation
ReprovisionOfWriteFirst(early, f, s, issue) ==
  CASE early # "" -> ReprovisionResult(-1, early, NoAct, s, 0, 0)
    [] f.err # "" -> ReprovisionResult(-1, f.err, NoAct, s, 0, 0)
    [] f.need_epoch_metadata_update ->
         IF issue = "OK"
         THEN ReprovisionResult(
                0, "", ActionStarted("write", s.md.epoch, f.new_metadata),
                s, 0, 1)
         ELSE ReprovisionResult(-1, issue, NoAct, s, 0, 1)
    [] f.need_reactivation ->
         IF issue = "OK"
         THEN ReprovisionResult(
                0, "", ActionStarted("activate", s.md.epoch, f.new_metadata),
                [s EXCEPT !.state = "ACTIVATING"], 1, 0)
         ELSE ReprovisionResult(-1, issue, NoAct, s, 1, 0)
    [] OTHER -> ReprovisionResult(-1, "UPTODATE", NoAct, s, 0, 0)

\* the function past its early checks (early) and its do-while block (f)
ReprovisionOf(early, f, s, issue) ==
  CASE early # "" -> ReprovisionResult(-1, early, NoAct, s, 0, 0)
    [] f.err # "" -> ReprovisionResult(-1, f.err, NoAct, s, 0, 0)
    [] f.need_reactivation ->
         IF issue = "OK"
         THEN ReprovisionResult(
                0, "", ActionStarted("activate", s.md.epoch, f.new_metadata),
                [s EXCEPT !.state = "ACTIVATING"], 1, 0)
         ELSE ReprovisionResult(-1, issue, NoAct, s, 1, 0)
    [] f.need_epoch_metadata_update ->
         IF issue = "OK"
         THEN ReprovisionResult(
                0, "", ActionStarted("write", s.md.epoch, f.new_metadata),
                s, 0, 1)
         ELSE ReprovisionResult(-1, issue, NoAct, s, 0, 1)
    [] OTHER -> ReprovisionResult(-1, "UPTODATE", NoAct, s, 0, 0)

reprovisionOrReactivateIfNeeded(logid, s, cfg, issue) ==
  ReprovisionOf(EarlyError(logid, s, cfg), Reconcile(logid, s, cfg), s, issue)

\* should_retry that holds for every err
ShouldRetryAlways(err) == TRUE

\* should_retry without E::ACCESS
ShouldRetryNoAccess(err) == err \in {"FAILED", "NOBUFS", "TOOMANY", "NOTCONN"}

\* should_retry
ShouldRetry(err) == err \in {"FAILED", "NOBUFS", "TOOMANY", "NOTCONN", "ACCESS"}

(***************************************************************************)
(* processOneLog(log_id, token).  Result: ret (the bool returned), moved   *)
(* (the token was moved into the sequencer), the sequencer afterwards, the *)
(* action started, and res, a tag of the path taken.                        *)
(***************************************************************************)
ProcessResult(ret, moved, s, act, res, nr, nw) ==
  [ret |-> ret, moved |-> moved, s |-> s, act |-> act, res |-> res,
   reactivations |-> nr, updates |-> nw]

\* the function given s1, the sequencer after noteConfigurationChanged(),
\* and r, the result of reprovisionOrReactivateIfNeeded() on it
ProcessOf(s, is_sequencer_node, s1, r) ==
  CASE ~s.exists -> ProcessResult(TRUE, FALSE, s, NoAct, "NOSEQ", 0, 0)
    [] s.token -> ProcessResult(TRUE, FALSE, s, NoAct, "INFLIGHT", 0, 0)
    [] ~is_sequencer_node ->
         ProcessResult(TRUE, FALSE, s1, NoAct, "NOTSEQNODE", 0, 0)
    [] r.rv = -1 /\ r.err = "UPTODATE" ->
         ProcessResult(TRUE, FALSE, r.s, NoAct, "UPTODATE",
                       r.reactivations, r.updates)
    [] r.rv = -1 ->
         ProcessResult(~ShouldRetry(r.err), FALSE, r.s, NoAct, r.err,
                       r.reactivations, r.updates)
    [] OTHER ->
         ProcessResult(TRUE, TRUE, [r.s EXCEPT !.token = TRUE], r.act,
                       IF r.act.kind = "activate" THEN "ACTIVATE" ELSE "WRITE",
                       r.reactivations, r.updates)

processOneLog(log_id, s, cfg, issue) ==
  ProcessOf(s, cfg.is_sequencer_node,
            noteConfigurationChanged(s, cfg.is_sequencer_node),
            reprovisionOrReactivateIfNeeded(
              log_id, noteConfigurationChanged(s, cfg.is_sequencer_node),
              cfg, issue))

(***************************************************************************)
(* State.                                                                   *)
(***************************************************************************)
VARIABLES
  queue_,        \* the pending ids, in the container's iteration order
  budget_,       \* [created, limit, used]: the ResourceBudget
  retry_timer_,  \* "idle", or what it was armed with: "retry" / "yield"
  seqs,          \* log -> sequencer
  config,        \* the configuration the worker sees
  settings,      \* [max_in_flight]: the live settings
  outstanding,   \* log -> the actions started and not yet finished
  posted,        \* id -> notifyCompletion requests posted to the worker
  stats,         \* the four counters
  aborted,       \* a failed ld_check stopped the worker
  last,          \* what the step just taken did: [ran, res, noop]: a
                 \* drain ran, the decisions it made, the id of a
                 \* notification that was ignored
  passes,        \* log -> drain passes it has waited through
  reacted,       \* log -> a reactivation was started since its
                 \* configuration last changed
  env            \* the inputs from outside the run may still take

vars == <<queue_, budget_, retry_timer_, seqs, config, settings, outstanding,
          posted, stats, aborted, last, passes, reacted, env>>

Range(q) == {q[i] : i \in 1 .. Len(q)}

Remove(q, i) == [j \in 1 .. (Len(q) - 1) |-> IF j < i THEN q[j] ELSE q[j + 1]]

Attached == {l \in Logs : seqs[l].token}

\* ResourceBudget::available()
available(limit, used) == Max(limit - used, 0)

(***************************************************************************)
(* queue_.insert(): the container's type fixes where a new id lands in the *)
(* iteration order; the ids already there keep their relative order.       *)
(***************************************************************************)
\* InsertOne on a container that keeps duplicates
InsertOneDup(q, id) == {Append(q, id)}

InsertOne(q, id) ==
  IF id \in Range(q) THEN {q}
  ELSE {[j \in 1 .. (Len(q) + 1) |->
           IF j < i THEN q[j] ELSE IF j = i THEN id ELSE q[j - 1]]
        : i \in 1 .. (Len(q) + 1)}

RECURSIVE InsertAll(_, _)
InsertAll(q, ids) ==
  IF ids = {} THEN {q}
  ELSE LET id == CHOOSE x \in ids : TRUE IN
       UNION {InsertAll(q2, ids \ {id}) : q2 \in InsertOne(q, id)}

\* what the external call of a decision may return
IssueChoices(kind, left) ==
  {"OK"} \cup
  (IF left = 0 THEN {}
   ELSE IF kind = "activate" THEN ActivateErrors
   ELSE IF kind = "write" THEN EpochStoreErrors
   ELSE {})

(***************************************************************************)
(* The drain loop works on a record D of what it reads and writes:         *)
(*   queue, used, seqs, outstanding, stats, timer, left (the inputs from   *)
(*   outside the run may still take)                                        *)
(* and of what it did: res (log -> the tag of the decision processOneLog   *)
(* made for it in this pass, "-" if it was not handed to it), and of where *)
(* it started: queue0, avail0.                                              *)
(***************************************************************************)

\* UsedAfter with the release of an unmoved token left out
UsedAfterLeak(used, moved) == used + 1

\* the credits in use after an iteration that returned true: the token
\* stays in use if it was moved into the sequencer, else it is released
UsedAfter(used, moved) == IF moved THEN used + 1 ELSE used

\* LoopCondition without the test of the budget
LoopConditionNoBudget(queue, limit, used) == queue # <<>>

\* !queue_.empty() && budget_->available() > 0
LoopCondition(queue, limit, used) ==
  queue # <<>> /\ available(limit, used) > 0

\* what the loop works on after processOneLog(log_id, token) returned p
Processed(D, log_id, p, issue) ==
  [D EXCEPT
     !.seqs[log_id] = p.s,
     !.outstanding[log_id] = IF p.act = NoAct THEN @ ELSE Append(@, p.act),
     !.stats.reactivations = @ + p.reactivations,
     !.stats.updates = @ + p.updates,
     !.left = IF issue = "OK" THEN @ ELSE @ - 1,
     !.res[log_id] = p.res]

\* DrainStepOf that bumps the completed stat for every erased id
DrainStepOfBumpsAlways(D1, p) ==
  IF p.ret
  THEN [cont |-> TRUE,
        D |-> [D1 EXCEPT
                 !.queue = Tail(@),
                 !.used = UsedAfter(@, p.moved),
                 !.stats.completed = @ + 1]]
  ELSE [cont |-> FALSE,
        D |-> [D1 EXCEPT !.timer = "retry"]]

\* if (processOneLog(log_id, token)) { ... } else { ... }, given what
\* processOneLog returned (p) and left behind (D1)
DrainStepOf(D1, p) ==
  IF p.ret
  THEN [cont |-> TRUE,
        D |-> [D1 EXCEPT
                 !.queue = Tail(@),
                 !.used = UsedAfter(@, p.moved),
                 !.stats.completed = IF p.moved THEN @ ELSE @ + 1]]
  ELSE [cont |-> FALSE,
        D |-> [D1 EXCEPT !.timer = "retry"]]

\* one iteration on log_id = *queue_.begin()
DrainStepOn(D, log_id, p, issue) ==
  DrainStepOf(Processed(D, log_id, p, issue), p)

DrainStep(D, cfg, issue) ==
  DrainStepOn(D, Head(D.queue),
              processOneLog(Head(D.queue), D.seqs[Head(D.queue)], cfg, issue),
              issue)

\* while (!queue_.empty() && budget_->available() > 0) { ... }
RECURSIVE DrainLoop(_, _, _, _)
\* the loop after an iteration that left st
DrainLoopAfter(st, limit, cfg) ==
  IF st.cont THEN DrainLoop(st.D, limit, cfg, TRUE) ELSE {st.D}

\* DrainLoop whose check of the clock does not wait for made_progress
DrainLoopYieldsFirst(D, limit, cfg, made_progress) ==
  IF ~LoopCondition(D.queue, limit, D.used)
  THEN {D}
  ELSE {[D EXCEPT !.timer = "yield"]}
       \cup
       UNION {DrainLoopAfter(DrainStep(D, cfg, issue), limit, cfg)
              : issue \in IssueChoices(
                  DecisionKind(Head(D.queue), D.seqs[Head(D.queue)], cfg),
                  D.left)}

DrainLoop(D, limit, cfg, made_progress) ==
  IF ~LoopCondition(D.queue, limit, D.used)
  THEN {D}
  ELSE (IF made_progress THEN {[D EXCEPT !.timer = "yield"]} ELSE {})
       \cup
       UNION {DrainLoopAfter(DrainStep(D, cfg, issue), limit, cfg)
              : issue \in IssueChoices(
                  DecisionKind(Head(D.queue), D.seqs[Head(D.queue)], cfg),
                  D.left)}

\* maybeProcessQueue without deactivateQueueProcessingTimer() on entry
maybeProcessQueueKeepsTimer(q, used, sq, out, st, ev) ==
  LET limit == settings.max_in_flight
      D0 == [queue |-> q, used |-> used, seqs |-> sq,
             outstanding |-> out, stats |-> st,
             timer |-> retry_timer_, left |-> ev,
             res |-> [l \in Logs |-> "-"],
             queue0 |-> q, avail0 |-> available(limit, used)]
  IN DrainLoop(D0, limit, config, FALSE)

\* maybeProcessQueue(), entered with pending set q, used credits used,
\* sequencers sq, outstanding actions out, counters st and ev inputs from
\* outside used: the set of states it can leave
maybeProcessQueue(q, used, sq, out, st, ev) ==
  LET limit == settings.max_in_flight
      D0 == [queue |-> q, used |-> used, seqs |-> sq,
             outstanding |-> out, stats |-> st,
             timer |-> "idle", left |-> ev,
             res |-> [l \in Logs |-> "-"],
             queue0 |-> q, avail0 |-> available(limit, used)]
  IN DrainLoop(D0, limit, config, FALSE)

(***************************************************************************)
(* Init: the engine is created empty on first use, in a worker whose       *)
(* sequencers and configuration already exist.                              *)
(***************************************************************************)
InitMD(e) == [epoch |-> e, nodeset |-> 0, params |-> 0, written |-> TRUE,
              valid |-> TRUE]

ActiveSeq(md) ==
  [exists |-> TRUE, state |-> "ACTIVE", md |-> md, options |-> 0,
   token |-> FALSE, preempted |-> EPOCH_INVALID]

\* the sequencers a log may start with: none; ACTIVE in a low epoch or one
\* close to EPOCH_MAX; ACTIVE with metadata not yet in the metadata log
InitSeqs ==
  {[exists |-> FALSE, state |-> "UNAVAILABLE", md |-> NoMD,
    options |-> NoOptions, token |-> FALSE, preempted |-> EPOCH_INVALID]}
  \cup {ActiveSeq(InitMD(e)) : e \in InitEpochs}
  \cup {ActiveSeq([InitMD(1) EXCEPT !.written = FALSE])}

\* log 1 starts with any of them, the other logs ACTIVE in epoch 1
InitSeqMaps ==
  {[l \in Logs |-> IF l = 1 THEN s ELSE ActiveSeq(InitMD(1))] : s \in InitSeqs}

\* without provisioning the reconciler is never called
InitModes == {<<TRUE, m>> : m \in ReconcilerModes} \cup {<<FALSE, "OK">>}

\* the configuration the engine first sees: the one the sequencers were
\* activated with, or one whose last update changed an attribute of
\* every log
InitLogCfgs ==
  LET same == [present |-> TRUE, options |-> 0, nodeset |-> 0, params |-> 0]
  IN {same, [same EXCEPT !.options = 1], [same EXCEPT !.nodeset = 1],
      [same EXCEPT !.params = 1]}

EnvOp == [ran |-> FALSE, res |-> [l \in Logs |-> "-"], noop |-> 0]

\* the state after construction, for the configurations the engine may
\* first see and the inputs from outside the run may take
Start(modes, cfgs, events) ==
  /\ queue_ = <<>>
  /\ budget_ = [created |-> FALSE, limit |-> 0, used |-> 0]
  /\ retry_timer_ = "idle"
  /\ seqs \in InitSeqMaps
  /\ \E pm \in modes, lc \in cfgs :
       config = [logs |-> [l \in Logs |-> lc], provision |-> pm[1],
                 is_sequencer_node |-> TRUE, mode |-> pm[2]]
  /\ settings \in [max_in_flight : {1, MaxLimit}]
  /\ outstanding = [l \in Logs |-> <<>>]
  /\ posted = [id \in AllIds |-> 0]
  /\ stats = [scheduled |-> 0, completed |-> 0, reactivations |-> 0,
              updates |-> 0]
  /\ aborted = FALSE
  /\ last = EnvOp
  /\ passes = [l \in Logs |-> 0]
  /\ reacted = [l \in Logs |-> FALSE]
  /\ env = events

Init == Start(InitModes, InitLogCfgs, MaxEvents)

\* longer runs from fewer starts: a convergent reconciler, and a
\* configuration whose last update changed the nodeset parameters
InitLong ==
  Start({<<TRUE, "OK">>},
        {[present |-> TRUE, options |-> 0, nodeset |-> 0, params |-> 1]},
        MaxEvents + 1)

\* the drain passes log l has waited through, after a pass that left D
Waited(D, l) ==
  IF l \notin Range(D.queue) \/ D.res[l] # "-" THEN 0
  ELSE IF l \in Range(D.queue0) /\ D.avail0 > 0
       THEN Min(passes[l] + 1, MaxPasses)
       ELSE passes[l]

\* the state an entry point leaves when its drain leaves D
ApplyDrain(D) ==
  /\ queue_' = D.queue
  /\ budget_' = [created |-> TRUE, limit |-> settings.max_in_flight,
                 used |-> D.used]
  /\ retry_timer_' = D.timer
  /\ seqs' = D.seqs
  /\ outstanding' = D.outstanding
  /\ stats' = D.stats
  /\ last' = [ran |-> TRUE, res |-> D.res, noop |-> 0]
  /\ passes' = [l \in Logs |-> Waited(D, l)]
  /\ reacted' = [l \in Logs |-> reacted[l] \/ D.res[l] = "ACTIVATE"]

(***************************************************************************)
(* schedule(log_ids)                                                        *)
(***************************************************************************)
\* the insertions, the stat and the drain of schedule() on data log ids
scheduleRun(q, used, sq, out, st, ev, log_ids) ==
  LET num_scheduled == Cardinality(log_ids \ Range(q)) IN
  UNION {maybeProcessQueue(q1, used, sq, out,
                           [st EXCEPT !.scheduled = @ + num_scheduled], ev)
         : q1 \in InsertAll(q, log_ids)}

schedule(log_ids) ==
  /\ ~aborted
  /\ env > 0
  /\ IF \E id \in log_ids : ~ld_check(~isMetaDataLog(id))
     THEN /\ aborted' = TRUE
          /\ last' = EnvOp
          /\ env' = env - 1
          /\ UNCHANGED <<queue_, budget_, retry_timer_, seqs, config,
                         settings, outstanding, posted, stats, passes,
                         reacted>>
     ELSE \E D \in scheduleRun(queue_, budget_.used, seqs, outstanding,
                               stats, env - 1, log_ids) :
            /\ ApplyDrain(D)
            /\ env' = D.left
            /\ UNCHANGED <<config, settings, posted, aborted>>

\* notifyCompletionRun that counts every insertion as scheduled
notifyCompletionRunCounts(q, used, sq, out, st, ev, logid) ==
  LET had_token == sq[logid].token
      sq1 == [sq EXCEPT ![logid].token = FALSE]
      used1 == IF had_token THEN used - 1 ELSE used
      inserted == logid \notin Range(q)
      st1 == [st EXCEPT
                !.completed = IF had_token /\ ~inserted THEN @ + 1 ELSE @,
                !.scheduled = IF inserted THEN @ + 1 ELSE @]
  IN UNION {maybeProcessQueue(q1, used1, sq1, out, st1, ev)
            : q1 \in InsertOne(q, logid)}

\* notifyCompletion() past its two early returns: the token, the insertion,
\* the stats and the drain
notifyCompletionRun(q, used, sq, out, st, ev, logid) ==
  LET had_token == sq[logid].token
      sq1 == [sq EXCEPT ![logid].token = FALSE]
      used1 == IF had_token THEN used - 1 ELSE used
      inserted == logid \notin Range(q)
      st1 == [st EXCEPT
                !.completed = IF had_token /\ ~inserted THEN @ + 1 ELSE @,
                !.scheduled = IF ~had_token /\ inserted THEN @ + 1 ELSE @]
  IN UNION {maybeProcessQueue(q1, used1, sq1, out, st1, ev)
            : q1 \in InsertOne(q, logid)}

\* notifyCompletion whose early returns still reach the drain
notifyCompletionDrains(logid) ==
  /\ ~aborted
  /\ posted[logid] > 0
  /\ posted' = [posted EXCEPT ![logid] = @ - 1]
  /\ \E D \in (IF isMetaDataLog(logid) \/ ~seqs[logid].exists
               THEN maybeProcessQueue(queue_, budget_.used, seqs,
                                      outstanding, stats, env)
               ELSE notifyCompletionRun(queue_, budget_.used, seqs,
                                        outstanding, stats, env, logid)) :
       /\ ApplyDrain(D)
       /\ env' = D.left
       /\ UNCHANGED <<config, settings, aborted>>

(***************************************************************************)
(* notifyCompletion(logid, st), run from a posted request                   *)
(***************************************************************************)
notifyCompletion(logid) ==
  /\ ~aborted
  /\ posted[logid] > 0
  /\ posted' = [posted EXCEPT ![logid] = @ - 1]
  /\ IF isMetaDataLog(logid) \/ ~seqs[logid].exists
     THEN /\ last' = [EnvOp EXCEPT !.noop = logid]
          /\ UNCHANGED <<queue_, budget_, retry_timer_, seqs, config,
                         settings, outstanding, stats, aborted, passes,
                         reacted, env>>
     ELSE \E D \in notifyCompletionRun(queue_, budget_.used, seqs,
                                      outstanding, stats, env, logid) :
            /\ ApplyDrain(D)
            /\ env' = D.left
            /\ UNCHANGED <<config, settings, aborted>>

(***************************************************************************)
(* The retry timer fires: retry_timer_'s callback is maybeProcessQueue().   *)
(***************************************************************************)
TimerFire ==
  /\ ~aborted
  /\ retry_timer_ # "idle"
  /\ \E D \in maybeProcessQueue(queue_, budget_.used, seqs, outstanding,
                               stats, env) :
       /\ ApplyDrain(D)
       /\ env' = D.left
       /\ UNCHANGED <<config, settings, posted, aborted>>

(***************************************************************************)
(* The epoch store runs the callback of a nodeset-params write with status *)
(* st; info_epoch is the epoch of the metadata it hands back.               *)
(***************************************************************************)

\* Sequencer::setNodeSetParamsInCurrentEpoch(epoch, params)
setNodeSetParamsInCurrentEpoch(s, epoch, params) ==
  IF s.md # NoMD /\ s.md.epoch = epoch
  THEN [s EXCEPT !.md.params = params]
  ELSE s

\* AllSequencers::notePreemption(log, epoch, ..., seq, ...)
notePreemption(s, epoch) ==
  [s EXCEPT !.state = "PREEMPTED", !.preempted = epoch]

\* CallbackNotifies for the statuses of a write that took effect only
CallbackNotifiesOnSuccess(st) == st \in {"OK", "UPTODATE"}

\* the statuses after which the callback posts a completion notification
CallbackNotifies(st) == st # "SHUTDOWN" /\ st # "FAILED"

EpochStoreCallback(log_id, i, st, info_epoch) ==
  LET a == outstanding[log_id][i]
      s1 == IF st = "OK" \/ st = "UPTODATE"
            THEN setNodeSetParamsInCurrentEpoch(
                   seqs[log_id], a.current_epoch, a.md.params)
            ELSE seqs[log_id]
      s2 == IF st = "ABORTED"
            THEN notePreemption(s1, EpochMinus1(info_epoch))
            ELSE s1
  IN
  /\ ~aborted
  /\ a.kind = "write"
  /\ st \in {"OK", "UPTODATE"} \/ env > 0
  /\ env' = IF st \in {"OK", "UPTODATE"} THEN env ELSE env - 1
  /\ outstanding' = [outstanding EXCEPT ![log_id] = Remove(@, i)]
  /\ seqs' = [seqs EXCEPT ![log_id] = s2]
  /\ posted' = [posted EXCEPT
                  ![log_id] = IF CallbackNotifies(st) THEN @ + 1 ELSE @]
  /\ last' = EnvOp
  /\ UNCHANGED <<queue_, budget_, retry_timer_, config, settings, stats,
                 aborted, passes, reacted>>

(***************************************************************************)
(* A sequencer activation the engine asked for ends with status st; the    *)
(* sequencer then posts a completion notification.                          *)
(***************************************************************************)
\* the sequencer after the activation a ended OK: ACTIVE in the epoch
\* asked for, with the metadata proposed (its own if none was), which still
\* has to reach the metadata log if the nodeset is new, and with the
\* options of the configuration lc
Activated(s, a, lc) ==
  LET md0 == IF a.md = NoMD THEN s.md ELSE a.md IN
  [s EXCEPT
     !.state = "ACTIVE",
     !.md = [md0 EXCEPT !.epoch = a.epoch,
                        !.written = (md0.nodeset = s.md.nodeset)],
     !.options = NewOptions(lc)]

ActivationComplete(log_id, i, st) ==
  LET a == outstanding[log_id][i]
      s == seqs[log_id]
      activated == Activated(s, a, config.logs[log_id])
  IN
  /\ ~aborted
  /\ a.kind = "activate"
  /\ st = "OK" => s.state = "ACTIVATING"
  /\ st = "OK" \/ env > 0
  /\ env' = IF st = "OK" THEN env ELSE env - 1
  /\ outstanding' = [outstanding EXCEPT ![log_id] = Remove(@, i)]
  /\ seqs' = [seqs EXCEPT
                ![log_id] =
                   CASE st = "OK" -> activated
                     [] st = "ABORTED" -> notePreemption(s, a.epoch)
                     [] OTHER -> [s EXCEPT !.state = "UNAVAILABLE"]]
  /\ posted' = [posted EXCEPT ![log_id] = @ + 1]
  /\ last' = EnvOp
  /\ UNCHANGED <<queue_, budget_, retry_timer_, config, settings, stats,
                 aborted, passes, reacted>>

(***************************************************************************)
(* The metadata of the current epoch reaches the metadata log; the         *)
(* metadata log manager then asks for a re-check.                           *)
(***************************************************************************)
MetaDataWritten(log_id) ==
  /\ ~aborted
  /\ seqs[log_id].exists
  /\ seqs[log_id].state = "ACTIVE"
  /\ ~seqs[log_id].md.written
  /\ seqs' = [seqs EXCEPT ![log_id].md.written = TRUE]
  /\ posted' = [posted EXCEPT ![log_id] = @ + 1]
  /\ last' = EnvOp
  /\ UNCHANGED <<queue_, budget_, retry_timer_, config, settings,
                 outstanding, stats, aborted, passes, reacted, env>>

(***************************************************************************)
(* requestNotifyCompletion() called by any other party, for any id.         *)
(***************************************************************************)
requestNotifyCompletion(id) ==
  /\ ~aborted
  /\ env > 0
  /\ posted' = [posted EXCEPT ![id] = @ + 1]
  /\ env' = env - 1
  /\ last' = EnvOp
  /\ UNCHANGED <<queue_, budget_, retry_timer_, seqs, config, settings,
                 outstanding, stats, aborted, passes, reacted>>

(***************************************************************************)
(* The configuration and the settings change under the engine.              *)
(***************************************************************************)
\* a configuration update changes one attribute of one log group
LogCfgChanges(lc) ==
  {[lc EXCEPT !.present = ~@], [lc EXCEPT !.options = 1 - @],
   [lc EXCEPT !.nodeset = 1 - @], [lc EXCEPT !.params = 1 - @]}

LogConfigChange(log_id, lc) ==
  /\ ~aborted
  /\ env > 0
  /\ lc \in LogCfgChanges(config.logs[log_id])
  /\ config' = [config EXCEPT !.logs[log_id] = lc]
  /\ reacted' = [reacted EXCEPT ![log_id] = FALSE]
  /\ env' = env - 1
  /\ last' = EnvOp
  /\ UNCHANGED <<queue_, budget_, retry_timer_, seqs, settings, outstanding,
                 posted, stats, aborted, passes>>

SequencingChange ==
  /\ ~aborted
  /\ env > 0
  /\ config' = [config EXCEPT !.is_sequencer_node = ~@]
  /\ reacted' = [l \in Logs |-> FALSE]
  /\ env' = env - 1
  /\ last' = EnvOp
  /\ UNCHANGED <<queue_, budget_, retry_timer_, seqs, settings, outstanding,
                 posted, stats, aborted, passes>>

SettingsChange(n) ==
  /\ ~aborted
  /\ env > 0
  /\ n # settings.max_in_flight
  /\ settings' = [settings EXCEPT !.max_in_flight = n]
  /\ env' = env - 1
  /\ last' = EnvOp
  /\ UNCHANGED <<queue_, budget_, retry_timer_, seqs, config, outstanding,
                 posted, stats, aborted, passes, reacted>>

(***************************************************************************)
(* The specification.                                                       *)
(***************************************************************************)
Next ==
  \/ \E ids \in (SUBSET AllIds) \ {{}} : schedule(ids)
  \/ \E id \in AllIds : notifyCompletion(id)
  \/ TimerFire
  \/ \E l \in Logs : \E i \in 1 .. Len(outstanding[l]) :
       \E st \in CallbackStatuses :
         \E e \in {EpochPlus1(outstanding[l][i].epoch), EPOCH_MAX} :
           EpochStoreCallback(l, i, st, e)
  \/ \E l \in Logs : \E i \in 1 .. Len(outstanding[l]) :
       \E st \in ActivationStatuses : ActivationComplete(l, i, st)
  \/ \E l \in Logs : MetaDataWritten(l)
  \/ \E id \in AllIds : requestNotifyCompletion(id)
  \/ \E l \in Logs : \E lc \in LogCfgChanges(config.logs[l]) :
       LogConfigChange(l, lc)
  \/ SequencingChange
  \/ \E n \in 0 .. MaxLimit : SettingsChange(n)

Spec == Init /\ [][Next]_vars

SpecLong == InitLong /\ [][Next]_vars

(***************************************************************************)
(* Properties.                                                              *)
(***************************************************************************)

\* what a step did, read off the two states of the step
Issued(l) == Len(outstanding'[l]) > Len(outstanding[l])

NewAction(l) == outstanding'[l][Len(outstanding'[l])]

IssuedIn(res) == {l \in Logs : res[l] \in {"ACTIVATE", "WRITE"}}

HandedIn(res) == {l \in Logs : res[l] # "-"}

RetryErrors == {"FAILED", "NOBUFS", "TOOMANY", "NOTCONN", "ACCESS"}

\* C1: for every log, at most one action started by the engine (a sequencer
\* reactivation or an epoch-store nodeset-params write) is outstanding, in
\* every reachable state.
C1_SingleInFlightPerLog == \A l \in Logs : Len(outstanding[l]) <= 1

\* C2 (as claimed): between calls, free credits plus attached tokens equal
\* the limit last applied to the budget.
C2_TokenConservation ==
  budget_.created =>
    available(budget_.limit, budget_.used) + Cardinality(Attached)
      = budget_.limit

\* C2 (amended): between calls, the credits in use are exactly the attached
\* tokens, and free credits plus attached tokens equal the larger of the
\* limit and the number of attached tokens: the limit whenever it was not
\* lowered below the tokens already attached.
C2_TokenAccounting ==
  /\ budget_.used = Cardinality(Attached)
  /\ budget_.created =>
       available(budget_.limit, budget_.used) + Cardinality(Attached)
         = Max(budget_.limit, Cardinality(Attached))

\* C2 witness: a drain pass applied a limit below the tokens attached
C2_Witness ==
  /\ budget_.created
  /\ Cardinality(Attached) > budget_.limit
  /\ last.ran

\* a drain pass that starts with every credit free and with res' telling
\* which ids it handed to processOneLog: the ids pending when it started
Pending0 == Range(queue_') \cup HandedIn(last'.res)

\* the credits in use when the pass of this step started
Used0 == budget_'.used - Cardinality(IssuedIn(last'.res))

\* every id pending at the start of the pass needs an action
AllNeedAction ==
  \A l \in Pending0 :
    DecisionKind(l, [seqs[l] EXCEPT !.token = FALSE], config) # "none"

FreshPass == last'.ran /\ Used0 = 0 /\ Pending0 # {} /\ AllNeedAction

\* C3, first half: with the setting unchanged, no step takes the number of
\* attached tokens above it.
C3_BoundKept ==
  (settings' = settings
   /\ Cardinality(Attached) <= settings.max_in_flight)
    => Cardinality(Attached') <= settings'.max_in_flight

\* C3 (as claimed): a drain pass that starts with all L credits free and k
\* pending logs that all need an action, and in which every action it
\* tries starts, issues exactly min(k, L) actions and leaves the other
\* k - min(k, L) ids pending.
C3_ExactlyMin ==
  [][(FreshPass /\ HandedIn(last'.res) = IssuedIn(last'.res)) =>
       LET k == Cardinality(Pending0)
           m == Min(k, budget_'.limit)
       IN /\ Cardinality(IssuedIn(last'.res)) = m
          /\ Len(queue_') = k - m]_vars

\* C3 (amended): with the setting unchanged no more than L sequencers hold a
\* token; a drain pass that starts with all L credits free and k pending
\* logs that all need an action issues at most min(k, L) actions, exactly
\* min(k, L) when it does not yield and no action fails to start, and every
\* id it did not hand to processOneLog is still pending.
C3_InFlightBound ==
  [][/\ C3_BoundKept
     /\ FreshPass =>
          LET k == Cardinality(Pending0)
              m == Min(k, budget_'.limit)
              n == Cardinality(IssuedIn(last'.res))
          IN /\ n <= m
             /\ (retry_timer_' = "idle"
                 /\ HandedIn(last'.res) = IssuedIn(last'.res))
                  => (n = m /\ Len(queue_') = k - m)
             /\ Range(queue_) \ HandedIn(last'.res)
                  \subseteq Range(queue_')]_vars

\* C3 witness: a pass with one credit and two logs that need an action has
\* issued one action and kept the other id
C3_Witness ==
  /\ last.ran
  /\ budget_.limit = 1
  /\ Cardinality(IssuedIn(last.res)) = 1
  /\ Len(queue_) = NumLogs - 1
  /\ retry_timer_ = "idle"
  /\ Cardinality(Attached) = 1

\* C4: an id that stays pending is handed to processOneLog within a bounded
\* number of drain passes that start with a free credit, here in the case
\* where every log was inserted once and nothing was inserted meanwhile:
\* when each pass were to move on to another id, NumLogs ids would make
\* the bound NumLogs - 1, whether the passes end by finishing, yielding or
\* deferring.
C4_Fairness ==
  \A l \in Logs :
    (stats.scheduled = NumLogs /\ retry_timer_ = "retry")
      => passes[l] <= NumLogs - 1

\* nothing is left that would run the drain again: no armed timer, no
\* action outstanding, no notification posted
Settled ==
  /\ ~aborted
  /\ retry_timer_ = "idle"
  /\ \A l \in Logs : outstanding[l] = <<>>
  /\ \A id \in AllIds : posted[id] = 0

\* C5: with a positive limit, once every started action has ended, no
\* notification is under way and the timer is not armed, the pending set
\* is empty (no further schedule() is needed to drain it).
C5_EventualDrain ==
  (Settled /\ budget_.created /\ budget_.limit > 0
   /\ settings.max_in_flight = budget_.limit)
    => queue_ = <<>>


(***************************************************************************)
(* schedule(S); schedule(S) against schedule(S).  Both are run on a copy E *)
(* of the engine and then to the end in the same calm environment: no      *)
(* external call fails, no pass outlasts its 2 ms, every action that is    *)
(* outstanding ends OK, in any order, and posts its completion; nothing    *)
(* else arrives.  E.issued is log -> the actions started in the run.       *)
(***************************************************************************)
MaxQuiesce == 8         \* completions followed in a run to the end

Engine0 ==
  [queue |-> queue_, used |-> budget_.used, seqs |-> seqs,
   outstanding |-> outstanding, stats |-> stats,
   issued |-> [l \in Logs |-> <<>>]]

\* the copy of the engine after an entry point that started from E left D
EngineAfter(E, D) ==
  [queue |-> D.queue, used |-> D.used, seqs |-> D.seqs,
   outstanding |-> D.outstanding, stats |-> D.stats,
   issued |-> [l \in Logs |->
                 E.issued[l] \o SubSeq(D.outstanding[l],
                                       Len(E.outstanding[l]) + 1,
                                       Len(D.outstanding[l]))]]

\* the drains that neither yielded nor deferred
Calm(Ds) == {D \in Ds : D.timer = "idle"}

Scheduled(E, S) ==
  {EngineAfter(E, D) :
     D \in Calm(scheduleRun(E.queue, E.used, E.seqs, E.outstanding, E.stats,
                            0, S))}

\* the sequencer of the oldest outstanding action a when a has ended
Ended(s, a, lc) ==
  IF a.kind = "write"
  THEN setNodeSetParamsInCurrentEpoch(s, a.current_epoch, a.md.params)
  ELSE IF s.state = "ACTIVATING" THEN Activated(s, a, lc)
  ELSE [s EXCEPT !.state = "UNAVAILABLE"]

\* the engine with the oldest action of l ended, before the notification
EndOldest(E, l) ==
  [E EXCEPT !.seqs[l] = Ended(@, Head(E.outstanding[l]), config.logs[l]),
            !.outstanding[l] = Tail(@)]

Notified(E, l) ==
  {EngineAfter(E, D) :
     D \in Calm(notifyCompletionRun(E.queue, E.used, E.seqs, E.outstanding,
                                    E.stats, 0, l))}

Busy(E) == {l \in Logs : E.outstanding[l] # <<>>}

Outcome(E) ==
  [pending |-> Range(E.queue), issued |-> E.issued, open |-> Busy(E)]

RECURSIVE Quiesce(_, _)
Quiesce(E, fuel) ==
  IF Busy(E) = {} \/ fuel = 0 THEN {Outcome(E)}
  ELSE UNION {UNION {Quiesce(E2, fuel - 1) : E2 \in Notified(EndOldest(E, l), l)}
              : l \in Busy(E)}

QuiesceAll(Es) == UNION {Quiesce(E, MaxQuiesce) : E \in Es}

Once(S) == QuiesceAll(Scheduled(Engine0, S))

Twice(S) == QuiesceAll(UNION {Scheduled(E, S) : E \in Scheduled(Engine0, S)})

\* C6: from every reachable state and for every set S of data log ids,
\* schedule(S); schedule(S) and a single schedule(S), each run to the end in
\* the same calm environment, end in the same outcomes: the same pending
\* set and, per log, the same actions started; and inserting an id that is
\* pending leaves the pending set as it is.
C6_ScheduleIdempotent ==
  ~aborted =>
    /\ \A S \in (SUBSET Logs) \ {{}} : Once(S) = Twice(S)
    /\ \A id \in Range(queue_) : InsertOne(queue_, id) = {queue_}

\* every run to the end of C6 does end: no action is left outstanding
C6_RunsEnd ==
  ~aborted =>
    \A S \in (SUBSET Logs) \ {{}} : \A o \in Twice(S) : o.open = {}

\* C6 witness: an id is pending and a sequencer holds a token, the single
\* schedule(S) starts an action and leaves an id pending for want of a
\* credit, and the run to the end of the double one starts an action for
\* every log
C6_Witness ==
  /\ ~aborted
  /\ last.ran
  /\ queue_ # <<>>
  /\ Attached # {}
  /\ \E E \in Scheduled(Engine0, Logs) :
       /\ E.queue # <<>>
       /\ \E l \in Logs : E.issued[l] # <<>>
  /\ \E o \in Twice(Logs) : \A l \in Logs : o.issued[l] # <<>>

\* C7: every action the engine starts, reactivation or nodeset-params
\* write, carries the epoch (current epoch of the sequencer, as read in the
\* pass that starts it) + 1, with no wrap-around; no outstanding action
\* carries any other epoch.
C7_EpochMonotonicity ==
  [][\A l \in Logs :
       /\ Issued(l) =>
            /\ seqs[l].md # NoMD
            /\ NewAction(l).epoch = seqs[l].md.epoch + 1
            /\ NewAction(l).current_epoch = seqs[l].md.epoch
       /\ \A i \in 1 .. Len(outstanding'[l]) :
            outstanding'[l][i].epoch = outstanding'[l][i].current_epoch + 1
     ]_vars

\* C7 witness: a reactivation and a nodeset-params write are outstanding
C7_Witness ==
  \E l1, l2 \in Logs :
    /\ outstanding[l1] # <<>> /\ outstanding[l1][1].kind = "activate"
    /\ outstanding[l2] # <<>> /\ outstanding[l2][1].kind = "write"
    /\ outstanding[l1][1].epoch = seqs[l2].md.epoch + 1

\* C8: a step starts no action for a log whose sequencer is in an epoch
\* >= EPOCH_MAX - 2; a pass that is handed such a log ends it with TOOBIG,
\* erases the id and arms the retry timer only if another log asks for a
\* retry; no action outstanding carries an epoch above EPOCH_MAX - 2, and
\* the epoch it carries is above the epoch it was computed from.
C8_EpochExhaustionGuard ==
  [][\A l \in Logs :
       /\ (seqs[l].md # NoMD /\ seqs[l].md.epoch >= EPOCH_MAX - 2)
            => ~Issued(l)
       /\ last'.res[l] = "TOOBIG" =>
            /\ seqs[l].md.epoch >= EPOCH_MAX - 2
            /\ l \notin Range(queue_')
            /\ retry_timer_' = "retry" =>
                 \E h \in Logs \ {l} : last'.res[h] \in RetryErrors
       /\ \A i \in 1 .. Len(outstanding'[l]) :
            /\ outstanding'[l][i].epoch <= EPOCH_MAX - 2
            /\ outstanding'[l][i].epoch > outstanding'[l][i].current_epoch
     ]_vars

\* C8 witness: a pass ended a log in epoch EPOCH_MAX - 2 with TOOBIG
C8_Witness ==
  \E l \in Logs :
    /\ last.res[l] = "TOOBIG"
    /\ seqs[l].md.epoch = EPOCH_MAX - 2
    /\ outstanding[l] = <<>>

\* the re-check of l gets as far as the decision
Decidable(l) ==
  /\ seqs[l].exists /\ seqs[l].state = "ACTIVE" /\ seqs[l].md # NoMD
  /\ seqs[l].md.valid /\ seqs[l].md.written
  /\ seqs[l].md.epoch < EPOCH_MAX - 2
  /\ seqs[l].options # NoOptions
  /\ config.logs[l].present /\ config.is_sequencer_node

C9_OneReactivation ==
  [][\A l \in Logs :
       (config.mode = "OK" /\ reacted[l] /\ config' = config) =>
         ~(Issued(l) /\ NewAction(l).kind = "activate")]_vars

\* C9 witness: a reactivation was started and has ended OK, and the re-check
\* against the same configuration ended with UPTODATE
C9_Witness ==
  \E l \in Logs :
    /\ config.mode = "OK"
    /\ reacted[l]
    /\ last.res[l] = "UPTODATE"
    /\ seqs[l].state = "ACTIVE"
    /\ seqs[l].md.epoch \notin InitEpochs
    /\ stats.reactivations = 1

\* C10: no metadata log id is ever pending; the step in which a failed
\* ld_check stops the worker leaves the pending set as it was; and a
\* notify-completion for a metadata log id changes neither the pending set
\* nor the budget, the sequencers, the retry timer or the stats, and runs
\* no drain.
C10_MetaDataLogRejection ==
  [][/\ \A id \in Range(queue_') : ~isMetaDataLog(id)
     /\ (~aborted /\ aborted') => queue_' = queue_
     /\ \A m \in MetaLogs :
          posted'[m] < posted[m] =>
            /\ UNCHANGED <<queue_, budget_, seqs, retry_timer_, stats,
                           outstanding>>
            /\ ~last'.ran
            /\ last'.noop = m
    ]_vars

\* C10 witness: a notify-completion for a metadata log id was ignored while
\* ids were pending, a credit was free and the timer was armed
C10_Witness ==
  /\ last.noop \in MetaLogs
  /\ queue_ # <<>>
  /\ retry_timer_ # "idle"
  /\ available(settings.max_in_flight, budget_.used) > 0

\* C10 witness: a schedule() with a metadata log id stopped the worker
C10_WitnessSchedule == aborted /\ queue_ # <<>>

\* a pass that ended the decision of l with an error of E left l first in
\* the pending set, started nothing for it, left its sequencer without a
\* token and every credit not attached free, and armed the retry timer
DeferredOn(l, E) ==
  last'.res[l] \in E =>
    /\ queue_' # <<>> /\ Head(queue_') = l
    /\ ~Issued(l)
    /\ ~seqs'[l].token
    /\ budget_'.used = Cardinality({h \in Logs : seqs'[h].token})
    /\ retry_timer_' = "retry"

\* the timer's drain hands the first pending id to processOneLog when a
\* credit is free
TimerRetries ==
  (TimerFire /\ queue_ # <<>>
   /\ available(settings.max_in_flight, budget_.used) > 0)
    => last'.res[Head(queue_)] # "-"

\* C11 (as claimed): when the action of a log fails to start with FAILED,
\* NOBUFS, TOOMANY, NOTCONN, ACCESS or SYSLIMIT, the id stays pending, the
\* token goes back to the budget, the retry timer is armed and the pass
\* ends; the timer's drain tries the log again.
C11_TransientErrorsRetried ==
  [][(\A l \in Logs : DeferredOn(l, RetryErrors \cup {"SYSLIMIT"}))
     /\ TimerRetries]_vars

\* C11 (amended): the same for FAILED, NOBUFS, TOOMANY, NOTCONN and ACCESS;
\* after SYSLIMIT the id is erased and the pass goes on, and the retry
\* timer is armed only if another log asks for a retry.
C11_TransientRetried ==
  [][(\A l \in Logs :
        /\ DeferredOn(l, RetryErrors)
        /\ last'.res[l] = "SYSLIMIT" =>
             /\ l \notin Range(queue_')
             /\ ~Issued(l) /\ ~seqs'[l].token
             /\ retry_timer_' = "retry" =>
                  \E h \in Logs \ {l} : last'.res[h] \in RetryErrors)
     /\ TimerRetries]_vars

\* C11 witness: a log was deferred, tried again, and deferred a second time
C11_Witness ==
  \E l \in Logs :
    /\ last.res[l] \in RetryErrors
    /\ retry_timer_ = "retry"
    /\ Head(queue_) = l
    /\ stats.reactivations + stats.updates = 2
    /\ stats.scheduled = 1
    /\ \A h \in Logs : outstanding[h] = <<>>

\* the tags of the decisions that end without an action and without a retry
Benign == {"NOSEQ", "UPTODATE", "INPROGRESS", "NOSEQUENCER", "NOTFOUND"}

\* an action was tried in this step and failed to start
TriedInStep ==
  stats'.reactivations + stats'.updates > stats.reactivations + stats.updates

\* what made the decision of l end with the tag it has
BenignCause(l) ==
  LET s == [seqs[l] EXCEPT !.token = FALSE] IN
  /\ last'.res[l] = "NOSEQ" => ~seqs[l].exists
  /\ last'.res[l] = "UPTODATE" => DecisionKind(l, s, config) = "none"
  /\ last'.res[l] = "NOSEQUENCER" =>
       \/ s.state \notin {"ACTIVE", "ACTIVATING"} \/ s.md = NoMD
       \/ s.options = NoOptions
  /\ last'.res[l] = "INPROGRESS" =>
       \/ s.state = "ACTIVATING"
       \/ (s.md # NoMD /\ ~s.md.written /\ config.provision)
       \/ TriedInStep
  /\ last'.res[l] = "NOTFOUND" =>
       ~config.logs[l].present \/ TriedInStep

\* C12: when the decision for a log ends with no sequencer found, UPTODATE,
\* INPROGRESS, NOSEQUENCER or NOTFOUND, the id is erased from the pending
\* set, no action is started, the token is back in the budget, the retry
\* timer is not armed on its account, and the pass goes on: it stops before
\* the pending set is empty or the credits are used up only by yielding or
\* by deferring another log.
C12_BenignDropped ==
  [][\A l \in Logs :
       last'.res[l] \in Benign =>
         /\ l \notin Range(queue_')
         /\ ~Issued(l)
         /\ ~seqs'[l].token
         /\ budget_'.used = Cardinality({h \in Logs : seqs'[h].token})
         /\ retry_timer_' = "retry" =>
              \E h \in Logs \ {l} : last'.res[h] \in RetryErrors
         /\ (queue_' # <<>>
             /\ available(budget_'.limit, budget_'.used) > 0)
              => retry_timer_' # "idle"
         /\ BenignCause(l)]_vars

\* C12 witness: a pass dropped a log whose sequencer is ACTIVATING with
\* INPROGRESS and went on to start an action for another log
C12_Witness ==
  \E l \in Logs, h \in Logs :
    /\ last.res[l] = "INPROGRESS"
    /\ seqs[l].state = "ACTIVATING"
    /\ l \notin Range(queue_)
    /\ last.res[h] \in {"ACTIVATE", "WRITE"}
    /\ retry_timer_ = "idle"

\* the four counters
Counters(sch, co, re, up) ==
  [scheduled |-> sch, completed |-> co, reactivations |-> re, updates |-> up]

\* S2, first step: the counters are zero, nothing is pending or in flight,
\* and a call inserts l alone and hands it to processOneLog, which finds a
\* params-only update to write and whose write starts
S2Scheduled(l) ==
  /\ stats = Counters(0, 0, 0, 0)
  /\ queue_ = <<>>
  /\ \A h \in Logs : outstanding[h] = <<>> /\ ~seqs[h].token
  /\ last'.ran
  /\ Range(queue_') \cup HandedIn(last'.res) = {l}
  /\ HandedIn(last'.res) = {l}
  /\ DecisionKind(l, seqs[l], config) = "write"
  /\ last'.res[l] \notin EpochStoreErrors

\* the decision for l with sequencer s gets to its end and finds the
\* options and the metadata as the configuration wants them
NeedsNothing(l, s) ==
  /\ s.exists /\ ~s.token /\ config.is_sequencer_node
  /\ EarlyError(l, s, config) = ""
  /\ Reconcile(l, s, config).err = ""
  /\ ActionKind(l, s, config) = "none"

\* S2, last step: the write has ended, and the notification of its end
\* is delivered, with a limit above 0, while the log needs nothing more
S2Notified(l) ==
  /\ stats = Counters(1, 0, 0, 1)
  /\ queue_ = <<>>
  /\ \A h \in Logs : outstanding[h] = <<>>
  /\ seqs[l].token
  /\ posted'[l] < posted[l]
  /\ settings.max_in_flight > 0
  /\ NeedsNothing(l, [seqs[l] EXCEPT !.token = FALSE])

\* what the first step of S2 leaves
S2AfterSchedule(l) ==
  /\ last'.res[l] = "WRITE"
  /\ Issued(l) /\ NewAction(l).kind = "write"
  /\ seqs'[l].token
  /\ queue_' = <<>>
  /\ retry_timer_' = "idle"
  /\ stats' = Counters(1, 0, 0, 1)

\* what the last step of S2 leaves, but for the counters
S2AfterNotify(l) ==
  /\ last'.res[l] = "UPTODATE"
  /\ ~Issued(l)
  /\ ~seqs'[l].token
  /\ queue_' = <<>>
  /\ retry_timer_' = "idle"

\* C13 (as claimed): in the params-only scenario schedule([log]) starts one
\* epoch-store write and attaches the token; the notification of its end
\* re-inserts the log, the re-check finds nothing to do and the pending set
\* empties, with the counters at updates = 1, completed = 1, scheduled = 2.
C13_ParamsOnlyScenario ==
  [][\A l \in Logs :
       /\ S2Scheduled(l) => S2AfterSchedule(l)
       /\ S2Notified(l) =>
            (S2AfterNotify(l) /\ stats' = Counters(2, 1, 0, 1))]_vars

\* C13 (amended): the same, with the counters at updates = 1,
\* completed = 1 and scheduled = 1 at the end: the notification released a
\* token, so its insertion is not counted as scheduled.
C13_ParamsOnlyCounters ==
  [][\A l \in Logs :
       /\ S2Scheduled(l) => S2AfterSchedule(l)
       /\ S2Notified(l) =>
            (S2AfterNotify(l) /\ stats' = Counters(1, 1, 0, 1))]_vars

\* C13 witness: the scenario has run to its end: the params of the
\* configuration are in the current epoch, which is still the first one
C13_Witness ==
  \E l \in Logs :
    /\ stats = Counters(1, 1, 0, 1)
    /\ last.res[l] = "UPTODATE"
    /\ queue_ = <<>>
    /\ \A h \in Logs : outstanding[h] = <<>> /\ ~seqs[h].token
    /\ seqs[l].state = "ACTIVE"
    /\ seqs[l].md.epoch = 1
    /\ seqs[l].md.params = 1
    /\ config.logs[l].params = 1
    /\ env = MaxEvents - 1

\* C14: when the callback of a nodeset-params write runs with ABORTED and
\* the epoch E' of the metadata handed back, the sequencer registry is told
\* of a preemption by epoch E' - 1 and the completion notification is
\* posted in the same callback; and a decision for a log whose sequencer is
\* not ACTIVE and holds no token starts no action, ends with INPROGRESS or
\* NOSEQUENCER, erases the id and arms the retry timer for no retry of this
\* log.
C14_PreemptionNoted ==
  [][\A l \in Logs :
       /\ \A i \in 1 .. Len(outstanding[l]) :
            \A e \in 1 .. EPOCH_MAX :
              EpochStoreCallback(l, i, "ABORTED", e) =>
                /\ EpochPlus1(seqs'[l].preempted) = e
                /\ posted'[l] = posted[l] + 1
                /\ Len(outstanding'[l]) = Len(outstanding[l]) - 1
                /\ queue_' = queue_ /\ retry_timer_' = retry_timer_
       /\ (last'.res[l] \notin {"-", "INFLIGHT"} /\ seqs[l].exists
           /\ seqs[l].state # "ACTIVE" /\ config.is_sequencer_node) =>
            /\ ~Issued(l)
            /\ last'.res[l] \in {"INPROGRESS", "NOSEQUENCER"}
            /\ seqs[l].state = "PREEMPTED" => last'.res[l] = "NOSEQUENCER"
            /\ l \notin Range(queue_')
            /\ ~seqs'[l].token
            /\ retry_timer_' = "retry" =>
                 \E h \in Logs \ {l} : last'.res[h] \in RetryErrors]_vars

\* C14 witness: a write of the engine ended with ABORTED, the preemption
\* was noted, and the re-check that followed dropped the id
C14_Witness ==
  \E l \in Logs :
    /\ seqs[l].state = "PREEMPTED"
    /\ seqs[l].preempted # EPOCH_INVALID
    /\ stats.updates = 1 /\ stats.reactivations = 0
    /\ last.res[l] = "NOSEQUENCER"
    /\ l \notin Range(queue_)
    /\ ~seqs[l].token
    /\ retry_timer_ = "idle"
    /\ \A h \in Logs : outstanding[h] = <<>>

\* the sequencer of l as the decision of this step saw it: any token it
\* held was released before (the decision did not end with INFLIGHT)
SeqSeen(l) == [seqs[l] EXCEPT !.token = FALSE]

\* the decision of l in this step got as far as
\* reprovisionOrReactivateIfNeeded
Decided(l) == last'.res[l] \notin {"-", "NOSEQ", "INFLIGHT", "NOTSEQNODE"}

\* the preconditions of C15 on sequencer s of log l
Reactivable(l, s) ==
  /\ s.exists /\ s.state = "ACTIVE" /\ s.md # NoMD /\ s.md.valid
  /\ config.logs[l].present
  /\ s.md.epoch < EPOCH_MAX - 2
  /\ s.options # NoOptions

\* the reconciler is reached for s
Reconciled(l, s) == config.provision /\ s.md.written

\* the first reconciler call returned r and the stability check failed
Unstable(l, r) ==
  /\ r.res = "UPDATED"
  /\ ~StabilityCheck(r.md, config.logs[l], config.mode)

\* the stability check of the decision for s failed
StabilityFailed(l, s) ==
  /\ Reconciled(l, s)
  /\ Unstable(l, FirstUpdate(s, config.logs[l], config.mode))

\* the decision of l asked for an activation with epoch current + 1
AskedToActivate(l, s) ==
  /\ last'.res[l] \in {"ACTIVATE"} \cup ActivateErrors
  /\ last'.res[l] = "ACTIVATE" =>
       /\ Issued(l)
       /\ NewAction(l).kind = "activate"
       /\ NewAction(l).epoch = s.md.epoch + 1

\* every activation asked for in this step is counted, and nothing else
ReactivationsCounted ==
  stats'.reactivations - stats.reactivations
    = Cardinality({h \in Logs :
                     Decided(h)
                     /\ DecisionKind(h, SeqSeen(h), config) = "activate"})

\* C15 (as claimed): for an ACTIVE sequencer with valid metadata, the log
\* in the configuration, an epoch below EPOCH_MAX - 2 and options that
\* differ from those of the configuration, the decision asks for an
\* activation with epoch current + 1, also when the metadata is not yet in
\* the metadata log, unless the stability check fails.
C15_OptionsForceReactivation ==
  [][ReactivationsCounted
     /\ \A l \in Logs :
          (Decided(l) /\ Reactivable(l, SeqSeen(l))
           /\ OptionsChanged(l, SeqSeen(l), config)
           /\ ~StabilityFailed(l, SeqSeen(l)))
            => (DecisionKind(l, SeqSeen(l), config) = "activate"
                /\ AskedToActivate(l, SeqSeen(l)))]_vars

\* C15 (amended): the same, except that with provisioning on and metadata
\* not yet in the metadata log the decision ends with INPROGRESS before it
\* asks for anything.
C15_OptionsReactivateWritten ==
  [][ReactivationsCounted
     /\ \A l \in Logs :
          (Decided(l) /\ Reactivable(l, SeqSeen(l))
           /\ OptionsChanged(l, SeqSeen(l), config)) =>
            /\ (~config.provision \/ SeqSeen(l).md.written)
                 => (StabilityFailed(l, SeqSeen(l))
                     \/ (DecisionKind(l, SeqSeen(l), config) = "activate"
                         /\ AskedToActivate(l, SeqSeen(l))))
            /\ (config.provision /\ ~SeqSeen(l).md.written) =>
                 /\ DecisionKind(l, SeqSeen(l), config) = "none"
                 /\ last'.res[l] = "INPROGRESS"
                 /\ ~Issued(l)
                 /\ seqs'[l].state = "ACTIVE"]_vars

\* C15 witness: a log whose options changed and whose metadata is not yet
\* in the metadata log was decided: INPROGRESS, no activation asked for
C15_Witness ==
  \E l \in Logs :
    /\ last.res[l] = "INPROGRESS"
    /\ Reactivable(l, seqs[l])
    /\ OptionsChanged(l, seqs[l], config)
    /\ config.provision /\ ~seqs[l].md.written
    /\ stats.reactivations = 0
    /\ outstanding[l] = <<>>

\* the first reconciler call of the decision for s returned FAILED
FirstFailed(l, s) ==
  /\ Reactivable(l, s)
  /\ Reconciled(l, s)
  /\ FirstUpdate(s, config.logs[l], config.mode).res = "FAILED"

\* the decision of l issued nothing, moved no token and left no retry
NothingDone(l) ==
  /\ ~Issued(l)
  /\ ~seqs'[l].token
  /\ last'.res[l] \notin RetryErrors
  /\ l \notin Range(queue_')

\* C16 (as claimed): when the first reconciler call returns FAILED the
\* decision issues no action (no activation, no epoch-store write), moves
\* no token into the sequencer and arms no retry, whether or not the
\* options changed.
C16_ReconcilerFailedTerminal ==
  [][\A l \in Logs :
       (Decided(l) /\ FirstFailed(l, SeqSeen(l)))
         => NothingDone(l)]_vars

\* C16 (amended): when the first reconciler call returns FAILED the
\* decision writes nothing to the epoch store and proposes no metadata;
\* with unchanged options it does nothing at all, with changed options it
\* asks for an activation with epoch current + 1 and no new metadata.
C16_ReconcilerFailedNoWrite ==
  [][\A l \in Logs :
       (Decided(l) /\ FirstFailed(l, SeqSeen(l))) =>
         /\ last'.res[l] # "WRITE"
         /\ Issued(l) => NewAction(l).md = NoMD
         /\ ~OptionsChanged(l, SeqSeen(l), config)
              => (NothingDone(l) /\ last'.res[l] = "UPTODATE")
         /\ OptionsChanged(l, SeqSeen(l), config)
              => /\ DecisionKind(l, SeqSeen(l), config) = "activate"
                 /\ AskedToActivate(l, SeqSeen(l))
                 /\ Issued(l) <=> last'.res[l] = "ACTIVATE"
                 /\ Issued(l) <=> seqs'[l].token]_vars

\* C16 witness: the reconciler failed for a log whose options changed, and
\* an activation without new metadata is in flight for it
C16_Witness ==
  \E l \in Logs :
    /\ last.res[l] = "ACTIVATE"
    /\ FirstFailed(l, [seqs[l] EXCEPT !.state = "ACTIVE"])
    /\ OptionsChanged(l, seqs[l], config)
    /\ seqs[l].token
    /\ outstanding[l] # <<>>
    /\ outstanding[l][Len(outstanding[l])].kind = "activate"
    /\ outstanding[l][Len(outstanding[l])].md = NoMD

\* the result of the second reconciler call of the decision for s
SecondRes(l, s) ==
  updateMetaDataIfNeeded(FirstUpdate(s, config.logs[l], config.mode).md,
                         config.logs[l], config.mode).res

\* C17: when the first reconciler call returns UPDATED and the second, on
\* a copy of the metadata it produced, returns UPDATED or FAILED, both
\* flags are cancelled, a need_reactivation set by changed options
\* included: the decision issues no action, moves no token into the
\* sequencer, the id is erased as done and no retry timer is armed for it.
C17_StabilityCheck ==
  [][\A l \in Logs :
       (/\ Decided(l) /\ Reactivable(l, SeqSeen(l))
        /\ Reconciled(l, SeqSeen(l))
        /\ FirstUpdate(SeqSeen(l), config.logs[l], config.mode).res = "UPDATED"
        /\ SecondRes(l, SeqSeen(l)) \in {"UPDATED", "FAILED"}) =>
         /\ NothingDone(l)
         /\ last'.res[l] = "UPTODATE"
         /\ seqs'[l] = SeqSeen(l)
         /\ outstanding'[l] = outstanding[l]
         /\ HandedIn(last'.res) = {l} =>
              /\ retry_timer_' # "retry"
              /\ stats'.reactivations = stats.reactivations
              /\ stats'.updates = stats.updates]_vars

\* C17 witness: a log whose options changed and whose reconciler does not
\* converge was decided: up to date, nothing in flight, no timer
C17_Witness ==
  \E l \in Logs :
    /\ last.res[l] = "UPTODATE"
    /\ Reactivable(l, seqs[l])
    /\ StabilityFailed(l, seqs[l])
    /\ SecondRes(l, seqs[l]) = "UPDATED"
    /\ OptionsChanged(l, seqs[l], config)
    /\ ~seqs[l].token
    /\ outstanding[l] = <<>>
    /\ l \notin Range(queue_)
    /\ retry_timer_ = "idle"
    /\ stats.reactivations = 0 /\ stats.updates = 0

\* the first reconciler call of the decision for s returned UPDATED with
\* r, and the second found it stable
UpdatedStable(l, s, r) ==
  /\ Reactivable(l, s) /\ Reconciled(l, s)
  /\ r.res = "UPDATED"
  /\ ~Unstable(l, r)

\* the decision for s may write the params: UPDATED with only the params
\* changed, and the options unchanged
WriteDue(l, s) ==
  /\ UpdatedStable(l, s, FirstUpdate(s, config.logs[l], config.mode))
  /\ FirstUpdate(s, config.logs[l], config.mode).only_params
  /\ ~OptionsChanged(l, s, config)

\* the decision for s has to reactivate: the options changed, or UPDATED
\* with more than the params changed
ActivateDue(l, s) ==
  /\ Reactivable(l, s)
  /\ \/ OptionsChanged(l, s, config)
     \/ /\ UpdatedStable(l, s, FirstUpdate(s, config.logs[l], config.mode))
        /\ ~FirstUpdate(s, config.logs[l], config.mode).only_params

\* C18: a decision for a log issues at most one action, an activation
\* whenever one is due and a params write only when the reconciler
\* returned UPDATED with only the params changed and the options are
\* unchanged; the token is in the sequencer after the decision iff the
\* action was issued, and every other token is back in the budget: after
\* the pass the credits in use are the tokens in sequencers.
C18_OneActionTokenFollows ==
  [][last'.ran =>
       /\ budget_'.used = Cardinality({l \in Logs : seqs'[l].token})
       /\ \A l \in Logs :
            /\ last'.res[l] = "-" => outstanding'[l] = outstanding[l]
            /\ Len(outstanding'[l]) \in
                 {Len(outstanding[l]), Len(outstanding[l]) + 1}
            /\ Issued(l) <=> last'.res[l] \in {"ACTIVATE", "WRITE"}
            /\ Issued(l) =>
                 outstanding[l] = SubSeq(outstanding'[l], 1, Len(outstanding[l]))
            /\ Decided(l) => (seqs'[l].token <=> Issued(l))
            /\ last'.res[l] = "WRITE" =>
                 /\ NewAction(l).kind = "write"
                 /\ WriteDue(l, SeqSeen(l))
            /\ last'.res[l] = "ACTIVATE" =>
                 /\ NewAction(l).kind = "activate"
                 /\ ActivateDue(l, SeqSeen(l))
            /\ (Decided(l) /\ ActivateDue(l, SeqSeen(l))
                /\ DecisionKind(l, SeqSeen(l), config) # "none")
                 => last'.res[l] \in {"ACTIVATE"} \cup ActivateErrors]_vars

\* C18 witness: with one credit, a pass decided a log that needed nothing
\* and then, with the token it got back, issued a write for the next one
C18_Witness ==
  \E l1, l2 \in Logs :
    /\ l1 # l2
    /\ budget_.limit = 1 /\ budget_.used = 1
    /\ last.res[l1] = "UPTODATE" /\ ~seqs[l1].token
    /\ last.res[l2] = "WRITE" /\ seqs[l2].token
    /\ Len(outstanding[l2]) = 1
    /\ outstanding[l2][1].kind = "write"
    /\ outstanding[l1] = <<>>

\* the release of the token of l is under way: an action of l is still
\* outstanding or a completion notification for l is posted
Covered(l) == seqs[l].token => (outstanding[l] # <<>> \/ posted[l] > 0)

\* this step is the epoch-store callback of a write of l with status st
WriteEnds(l, st) ==
  \E i \in 1 .. Len(outstanding[l]) :
    \E e \in {EpochPlus1(outstanding[l][i].epoch), EPOCH_MAX} :
      EpochStoreCallback(l, i, st, e)

\* the pass of this step stopped before it reached l
LeftPending(l) ==
  /\ last'.res[l] = "-"
  /\ l \in Range(queue_')
  /\ \/ retry_timer_' # "idle"
     \/ available(settings.max_in_flight, budget_'.used) = 0

NotHanded(q) == SelectSeq(q, LAMBDA id : last'.res[id] = "-")

\* the pass of this step started with the pending ids q0: it handed a
\* prefix of q0 to processOneLog, at least one id if q0 is not empty and a
\* credit was free; if it yielded, the timer is armed with the yield delay
\* and the pending set is q0 without the ids handed, which were all erased
ProgressThenYield(q0) ==
  /\ (q0 # <<>> /\ settings.max_in_flight - Used0 > 0)
       => HandedIn(last'.res) # {}
  /\ HandedIn(last'.res) \subseteq Range(q0)
  /\ \E k \in 0 .. Len(q0) :
       /\ HandedIn(last'.res) = {q0[i] : i \in 1 .. k}
       /\ \A i \in 1 .. (k - 1) : q0[i] \notin Range(queue_')
       /\ SubSeq(q0, k + 1, Len(q0)) = NotHanded(queue_')
  /\ retry_timer_' = "yield" =>
       /\ HandedIn(last'.res) # {}
       /\ queue_' = NotHanded(q0)
       /\ queue_' # <<>>
       /\ available(settings.max_in_flight, budget_'.used) > 0

\* C20: every drain that starts with ids pending and a credit free hands
\* at least one id to the decision procedure, whatever the clock reads;
\* a drain that yields leaves the timer armed with the yield delay and
\* every id it did not process in the pending set.
C20_ProgressBeforeYield ==
  [][/\ TimerFire => ProgressThenYield(queue_)
     /\ \A ids \in (SUBSET Logs) \ {{}} :
          schedule(ids) =>
            \E q0 \in InsertAll(queue_, ids) : ProgressThenYield(q0)
     /\ \A l \in Logs :
          (notifyCompletion(l) /\ seqs[l].exists) =>
            \E q0 \in InsertOne(queue_, l) : ProgressThenYield(q0)]_vars

\* C20 witness: a drain handed one id, yielded with a credit still free
\* and left the other id pending with the timer armed
C20_Witness ==
  \E l1, l2 \in Logs :
    /\ retry_timer_ = "yield"
    /\ last.ran
    /\ last.res[l1] # "-" /\ l1 \notin Range(queue_)
    /\ last.res[l2] = "-" /\ queue_ = <<l2>>
    /\ available(budget_.limit, budget_.used) > 0

\* the free credits the drain of this step left
FreeAfter == available(budget_'.limit, budget_'.used)

\* C21: when a drain returns, the pending set is empty, or the budget has
\* no free credit, or the timer is armed; a drain that stops because the
\* pending set is empty or the budget is exhausted leaves the timer idle,
\* whatever it was before (the drain cancels it on entry), and a drain
\* that leaves the timer armed leaves an id pending and a credit free.
C21_NoStalledDrain ==
  [][last'.ran =>
       /\ budget_'.created
       /\ budget_'.limit = settings.max_in_flight
       /\ queue_' = <<>> \/ FreeAfter = 0 \/ retry_timer_' # "idle"
       /\ (queue_' = <<>> \/ FreeAfter = 0) => retry_timer_' = "idle"
       /\ retry_timer_' = "retry" =>
            \E l \in Range(queue_') : last'.res[l] \in RetryErrors
       /\ retry_timer_' = "yield" =>
            \A l \in Logs : last'.res[l] \notin RetryErrors]_vars

\* C21 witness: a pass deferred the first id and armed the timer while the
\* second waited; the next pass issued the action of the first, which
\* took the only credit, and stopped with the second still pending and
\* the timer idle
C21_Witness ==
  \E l1, l2 \in Logs :
    /\ last.ran
    /\ last.res[l1] \in {"ACTIVATE", "WRITE"}
    /\ last.res[l2] = "-" /\ queue_ = <<l2>>
    /\ passes[l2] = 2
    /\ stats.scheduled = 2
    /\ budget_.limit = 1
    /\ available(budget_.limit, budget_.used) = 0
    /\ retry_timer_ = "idle"

\* C22: between calls of the engine, the scheduled counter minus the
\* completed counter is the number of ids pending plus the number of
\* sequencers that hold a token; hence completed never exceeds scheduled.
C22_MetricBalance ==
  /\ stats.scheduled - stats.completed
       = Len(queue_) + Cardinality(Attached)
  /\ Len(queue_) = Cardinality(Range(queue_))
  /\ stats.completed <= stats.scheduled

\* C22 witness: two insertions were counted, a params write was issued,
\* took effect and its notification released the token; both completions
\* are counted, nothing is pending and no token is attached
C22_Witness ==
  \E l \in Logs :
    /\ last.ran
    /\ stats.scheduled = 2 /\ stats.completed = 2
    /\ stats.updates = 1 /\ stats.reactivations = 0
    /\ last.res[l] = "UPTODATE"
    /\ seqs[l].md # NoMD
    /\ seqs[l].md.params = 1
    /\ queue_ = <<>>
    /\ Attached = {}
    /\ \A h \in Logs : outstanding[h] = <<>> /\ posted[h] = 0

====
